---- MODULE Spec2Model ----
(***************************************************************************)
(* paskuda: a terminal password prompt (src/paskuda.c).                    *)
(*                                                                         *)
(* The model follows main() statement by statement from init_tty() on      *)
(* (option parsing has already chosen the prompt).  Bytes are integers     *)
(* 0..255, C strings are sequences of bytes, the two output file           *)
(* descriptors are sequences of the bytes written to them.  Every system   *)
(* call the program checks may fail; a failure goes through xerror(),      *)
(* i.e. exit(EXIT_FAILURE), which runs the atexit() handler restore_tty(). *)
(***************************************************************************)
EXTENDS Integers, Sequences, FiniteSets

\* ---------------------------------------------------------------- bounds
\* sysconf(_SC_PAGESIZE): the capacity of the secret buffer, in bytes.
PageSize == 4
\* Number of bytes other than '\n' the terminal delivers before it only
\* delivers '\n', end-of-input or a read error.
MaxInput == 4
\* A failing feedback write is one of the first MaxFailAt writes of a step.
MaxFailAt == 1

\* ------------------------------------------------------ program constants
NUL == 0
BEL == 7
BS == 8
TAB == 9
NL == 10
NAK == 21
SPACE == 32
STAR == 42
DEL == 127

STATE_INIT == 0
STATE_ECHO == 1
STATE_NO_ECHO == 2

EXIT_SUCCESS == 0
EXIT_FAILURE == 1

STDIN_FILENO == 0

\* The value of tty_fd while the terminal is not engaged, and of
\* exit_status while the process runs.
NoFd == 0 - 1
Running == 0 - 1

\* "Password:"
DefaultPrompt == <<80, 97, 115, 115, 119, 111, 114, 100, 58>>
\* "(press TAB for no echo) "
MsgPressTab == <<40, 112, 114, 101, 115, 115, 32, 84, 65, 66, 32, 102, 111,
                 114, 32, 110, 111, 32, 101, 99, 104, 111, 41, 32>>
\* "(no echo) "
msg_no_echo == <<40, 110, 111, 32, 101, 99, 104, 111, 41, 32>>
\* msg_press_tab after line 164
NULL == <<0 - 1>>

\* "\b \b"
EraseSeq == <<BS, SPACE, BS>>

\* -------------------------------------------------------------- environment
\* The bytes the terminal can deliver: the five bytes main() tests for, a
\* control byte it does not test for, and two printable bytes.
Bytes == {NUL, BS, TAB, NL, NAK, 97, 98, DEL}
\* What freshly allocated (never written) memory can hold.
Indeterminate == {NUL, 170}
\* c_lflag bits of struct termios; the terminal's settings before the run.
LFlags == {"ECHO", "ICANON", "ISIG"}
OrigSettings == {{"ECHO", "ICANON", "ISIG"}, {"ICANON", "ISIG"}}
\* The prompts option parsing can hand over: the default, and "PIN:".
Prompts == {DefaultPrompt, <<80, 73, 78, 58>>}

VARIABLES
    pc,             \* position in main(), or how the process ended
    term,           \* the terminal's current c_lflag
    orig_tio,       \* static struct termios orig_tio
    tty_fd,         \* static int tty_fd
    hook,           \* restore_tty is registered with atexit()
    prompt,         \* static const char *prompt
    msg_press_tab,  \* static const char *msg_press_tab
    state,          \* static enum state
    heap,           \* "none", "live" or "freed": the block passwd points to
    passwd,         \* the PageSize bytes of the block (index 1 is passwd[0])
    len,            \* size_t len
    fd2,            \* bytes written to STDERR_FILENO by xprintf()
    fd1,            \* bytes written to STDOUT_FILENO by xprintf()
    exit_status,    \* the status passed to exit()
    diag,           \* the context string of the xerror() calls made
    \* history of the run, not read by the program
    typed,          \* bytes read() has delivered
    eof,            \* read() has returned 0
    prev,           \* len, state and secret before the last loop iteration
    last_out,       \* bytes the last loop iteration wrote to fd 2
    emitted,        \* line 211 has completed
    restores,       \* tcsetattr() calls of restore_tty() that succeeded
    scrubs,         \* xmemset() calls made
    frees           \* free() calls made

prog == <<pc, term, orig_tio, tty_fd, hook, prompt, msg_press_tab, state, heap,
          passwd, len, fd2, fd1, exit_status, diag>>
hist == <<typed, eof, prev, last_out, emitted, restores, scrubs, frees>>
vars == <<prog, hist>>

\* ------------------------------------------------------------ C library
Min(a, b) == IF a < b THEN a ELSE b

\* strlen(): the number of bytes before the first NUL of a block of memory.
RECURSIVE strlen_from(_, _)
strlen_from(mem, i) ==
    IF i > Len(mem) \/ mem[i] = NUL THEN 0 ELSE 1 + strlen_from(mem, i + 1)
strlen(mem) == strlen_from(mem, 1)

\* What vdprintf(fd, "%s", mem) writes: the bytes before the first NUL.
FormatS(mem) == SubSeq(mem, 1, strlen(mem))

\* The bytes a sequence of xprintf() calls writes, in order.
RECURSIVE Flatten(_)
Flatten(calls) ==
    IF calls = <<>> THEN <<>> ELSE Head(calls).s \o Flatten(Tail(calls))

\* One xprintf() call writing s, made when len, state and msg_press_tab
\* have the values of st.
Call(s, st) == [s |-> s, pre |-> st]

\* clear_n(): n calls xprintf(fd, "\b \b").
clear_n(n, st) == [i \in 1..n |-> Call(EraseSeq, st)]

\* clear_s(): clear_n(fd, strlen(s)).
clear_s(s, st) == clear_n(strlen(s), st)

\* --------------------------------------------------------- one loop pass
\* The program's own variables that a loop pass changes after read().
Cur == [len |-> len, state |-> state, msg |-> msg_press_tab]

IsErase(c) == c = BS \/ c = DEL

\* Mutants of HasRoom: the bound off by one in either direction.
HasRoomTight(l) == l < PageSize - 2
HasRoomLoose(l) == l < PageSize

\* default: of the switch accepts the byte when there is room for it and
\* for the terminator.
HasRoom(l) == l < PageSize - 1

\* Mutant of InitBranch: the continue of line 168 is missing, so a first
\* backspace or delete goes on to the switch.
InitBranch_nocontinue(st, c) ==
    IF st.state = STATE_INIT
    THEN LET cl == clear_s(st.msg, st)
             st1 == [st EXCEPT !.msg = NULL]
         IN  IF IsErase(c)
             THEN [calls |-> cl \o <<Call(msg_no_echo, st1)>>,
                   post |-> [st1 EXCEPT !.state = STATE_NO_ECHO],
                   cont |-> FALSE]
             ELSE [calls |-> cl,
                   post |-> [st1 EXCEPT !.state = STATE_ECHO],
                   cont |-> FALSE]
    ELSE [calls |-> <<>>, post |-> st, cont |-> FALSE]

\* Lines 162-172.  cont: the pass ends with "continue".
InitBranch(st, c) ==
    IF st.state = STATE_INIT
    THEN LET cl == clear_s(st.msg, st)
             st1 == [st EXCEPT !.msg = NULL]
         IN  IF IsErase(c)
             THEN [calls |-> cl \o <<Call(msg_no_echo, st1)>>,
                   post |-> [st1 EXCEPT !.state = STATE_NO_ECHO],
                   cont |-> TRUE]
             ELSE [calls |-> cl,
                   post |-> [st1 EXCEPT !.state = STATE_ECHO],
                   cont |-> FALSE]
    ELSE [calls |-> <<>>, post |-> st, cont |-> FALSE]

\* Mutant of DefaultCase: the mask is written whatever the mode is.
DefaultCase_star(st) ==
    IF HasRoom(st.len)
    THEN LET st1 == [st EXCEPT !.len = st.len + 1]
         IN  [calls |-> <<Call(<<STAR>>, st1)>>, post |-> st1]
    ELSE [calls |-> <<Call(<<BEL>>, st)>>, post |-> st]

\* Lines 195-201: default.
DefaultCase(st) ==
    IF HasRoom(st.len)
    THEN LET st1 == [st EXCEPT !.len = st.len + 1]
         IN  [calls |-> IF st1.state = STATE_ECHO
                        THEN <<Call(<<STAR>>, st1)>> ELSE <<>>,
              post |-> st1]
    ELSE [calls |-> <<Call(<<BEL>>, st)>>, post |-> st]

\* Mutant of EraseCase: an erase on an empty buffer is ignored silently.
EraseCase_silent(st) ==
    IF st.len # 0
    THEN [calls |-> IF st.state = STATE_ECHO THEN clear_n(1, st) ELSE <<>>,
          post |-> [st EXCEPT !.len = st.len - 1]]
    ELSE [calls |-> <<>>, post |-> st]

\* Mutant of EraseCase: len-- is inside the test of STATE_ECHO.
EraseCase_echo_only(st) ==
    IF st.len # 0
    THEN IF st.state = STATE_ECHO
         THEN [calls |-> clear_n(1, st),
               post |-> [st EXCEPT !.len = st.len - 1]]
         ELSE [calls |-> <<>>, post |-> st]
    ELSE [calls |-> <<Call(<<BEL>>, st)>>, post |-> st]

\* Lines 175-183: case 0x08, case 0x7F.
EraseCase(st) ==
    IF st.len # 0
    THEN [calls |-> IF st.state = STATE_ECHO THEN clear_n(1, st) ELSE <<>>,
          post |-> [st EXCEPT !.len = st.len - 1]]
    ELSE [calls |-> <<Call(<<BEL>>, st)>>, post |-> st]

\* Mutant of KillCase: the feedback is erased but len = 0 is forgotten.
KillCase_keep(st) == [calls |-> clear_n(st.len, st), post |-> st]

\* Lines 184-187: case 0x15.
KillCase(st) ==
    [calls |-> clear_n(st.len, st), post |-> [st EXCEPT !.len = 0]]

\* Mutant of TabCase: the break of line 194 is missing, so the tab falls
\* through to default.
TabCase_fallthrough(st) ==
    LET d == DefaultCase([st EXCEPT !.state = STATE_NO_ECHO])
    IN  [calls |-> (IF st.state = STATE_ECHO
                    THEN clear_n(st.len, st) \o <<Call(msg_no_echo, st)>>
                    ELSE <<>>) \o d.calls,
         post |-> d.post]

\* Mutant of TabCase: in Silent mode a tab switches the echo back on.
TabCase_toggle(st) ==
    IF st.state = STATE_ECHO
    THEN [calls |-> clear_n(st.len, st) \o <<Call(msg_no_echo, st)>>,
          post |-> [st EXCEPT !.state = STATE_NO_ECHO]]
    ELSE [calls |-> <<>>, post |-> [st EXCEPT !.state = STATE_ECHO]]

\* Lines 188-194: case '\t'.
TabCase(st) ==
    [calls |-> IF st.state = STATE_ECHO
               THEN clear_n(st.len, st) \o <<Call(msg_no_echo, st)>>
               ELSE <<>>,
     post |-> [st EXCEPT !.state = STATE_NO_ECHO]]

\* Lines 173-202: the switch.
Dispatch(st, c) ==
    CASE c = BS \/ c = DEL -> EraseCase(st)
      [] c = NAK -> KillCase(st)
      [] c = TAB -> TabCase(st)
      [] OTHER -> DefaultCase(st)

\* Lines 162-202 for a byte c other than '\n' that read() has stored.
Pass(st, c) ==
    LET a == InitBranch(st, c)
    IN  IF a.cont THEN [calls |-> a.calls, post |-> a.post]
        ELSE LET b == Dispatch(a.post, c)
             IN  [calls |-> a.calls \o b.calls, post |-> b.post]

\* Mutant of Epilogue: the masks are left on the line (lines 207-208
\* missing).
Epilogue_noclear(st) ==
    (IF st.state = STATE_INIT THEN clear_s(st.msg, st) ELSE <<>>)
    \o <<Call(<<NL>>, st)>>

\* Lines 204-209 after passwd[len] = '\0': the feedback of the epilogue.
Epilogue(st) ==
    (IF st.state = STATE_INIT THEN clear_s(st.msg, st) ELSE <<>>)
    \o (IF st.state = STATE_ECHO THEN clear_n(st.len, st) ELSE <<>>)
    \o <<Call(<<NL>>, st)>>

\* -------------------------------------------------------- process exit
\* Mutant of restore_tty: tty_fd is reset although tcsetattr() was not
\* given the saved settings.
restore_tty_unapplied(ok) ==
    IF tty_fd < 0
    THEN [term |-> term, tty_fd |-> tty_fd, called |-> FALSE, failed |-> FALSE]
    ELSE IF ok
         THEN [term |-> term, tty_fd |-> NoFd,
               called |-> TRUE, failed |-> FALSE]
         ELSE [term |-> term, tty_fd |-> tty_fd,
               called |-> TRUE, failed |-> TRUE]

\* Mutant of restore_tty: the test of tty_fd (lines 50-51) is missing.
restore_tty_always(ok) ==
    IF ok
    THEN [term |-> orig_tio, tty_fd |-> NoFd, called |-> TRUE, failed |-> FALSE]
    ELSE [term |-> term, tty_fd |-> tty_fd, called |-> TRUE, failed |-> TRUE]

\* restore_tty() (lines 48-56), with ok telling whether its tcsetattr()
\* succeeds: the terminal and tty_fd afterwards, whether tcsetattr() was
\* called, and whether xerror() was called.
restore_tty(ok) ==
    IF tty_fd < 0
    THEN [term |-> term, tty_fd |-> tty_fd, called |-> FALSE, failed |-> FALSE]
    ELSE IF ok
         THEN [term |-> orig_tio, tty_fd |-> NoFd,
               called |-> TRUE, failed |-> FALSE]
         ELSE [term |-> term, tty_fd |-> tty_fd,
               called |-> TRUE, failed |-> TRUE]

\* exit(status) with d the xerror() contexts reported so far: the handlers
\* registered with atexit() run.  When restore_tty() fails in the handler
\* it calls exit() a second time, which is undefined: the C library either
\* finishes the first exit() or ends the process abnormally.
exit(status, d) ==
    /\ exit_status' = status
    /\ \E ok \in BOOLEAN :
         LET r == IF hook THEN restore_tty(ok)
                  ELSE [term |-> term, tty_fd |-> tty_fd,
                        called |-> FALSE, failed |-> FALSE]
         IN  /\ term' = r.term
             /\ tty_fd' = r.tty_fd
             /\ restores' = restores + (IF r.called /\ ~r.failed THEN 1 ELSE 0)
             /\ diag' = IF r.failed THEN Append(d, "tcsetattr()") ELSE d
             /\ pc' \in IF r.failed THEN {"exited", "crashed"} ELSE {"exited"}

\* xerror() (lines 33-40): report and exit(EXIT_FAILURE).
xerror(context) == exit(EXIT_FAILURE, Append(diag, context))

\* The k-th of the xprintf() calls fails: the calls before it have written.
FailingCalls(calls) == 1..Min(Len(calls), MaxFailAt)
Written(calls, k) == Flatten(SubSeq(calls, 1, k - 1))

\* ------------------------------------------------------------------ Init
Init ==
    /\ pc = "init_tty"
    /\ term \in OrigSettings
    /\ orig_tio = {}
    /\ tty_fd = NoFd
    /\ hook = FALSE
    /\ prompt \in Prompts
    /\ msg_press_tab = MsgPressTab
    /\ state = STATE_INIT
    /\ heap = "none"
    /\ passwd = <<>>
    /\ len = 0
    /\ fd2 = <<>>
    /\ fd1 = <<>>
    /\ exit_status = Running
    /\ diag = <<>>
    /\ typed = <<>>
    /\ eof = FALSE
    /\ prev = [len |-> 0, state |-> STATE_INIT, secret |-> <<>>]
    /\ last_out = <<>>
    /\ emitted = FALSE
    /\ restores = 0
    /\ scrubs = 0
    /\ frees = 0

\* --------------------------------------------------------------- actions
\* init_tty(STDIN_FILENO) (lines 58-71, called at line 130), statement by
\* statement: a signal can end the process between any two of them.
\* Lines 61-64: tcgetattr() succeeds and the settings are saved.
InitTtyGet ==
    /\ pc = "init_tty"
    /\ orig_tio' = term
    /\ pc' = "init_tty_set"
    /\ UNCHANGED <<term, tty_fd, hook, prompt, msg_press_tab, state, heap,
                   passwd, len, fd2, fd1, exit_status, diag, hist>>

\* init_tty(): tcgetattr() fails (line 63).
InitTtyGetFail ==
    /\ pc = "init_tty"
    /\ xerror("tcgetattr()")
    /\ UNCHANGED <<orig_tio, hook, prompt, msg_press_tab, state, heap, passwd,
                   len, fd2, fd1, typed, eof, prev, last_out, emitted,
                   scrubs, frees>>

\* Lines 65-66: tcsetattr() switches ECHO and ICANON off.
InitTtySet ==
    /\ pc = "init_tty_set"
    /\ term' = orig_tio \ {"ECHO", "ICANON"}
    /\ pc' = "init_tty_fd"
    /\ UNCHANGED <<orig_tio, tty_fd, hook, prompt, msg_press_tab, state, heap,
                   passwd, len, fd2, fd1, exit_status, diag, hist>>

\* init_tty(): tcsetattr() fails (line 68), after line 64 saved the settings.
InitTtySetFail ==
    /\ pc = "init_tty_set"
    /\ xerror("tcsetattr()")
    /\ UNCHANGED <<orig_tio, hook, prompt, msg_press_tab, state, heap, passwd,
                   len, fd2, fd1, typed, eof, prev, last_out, emitted,
                   scrubs, frees>>

\* Line 69.
InitTtyFd ==
    /\ pc = "init_tty_fd"
    /\ tty_fd' = STDIN_FILENO
    /\ pc' = "init_tty_atexit"
    /\ UNCHANGED <<term, orig_tio, hook, prompt, msg_press_tab, state, heap,
                   passwd, len, fd2, fd1, exit_status, diag, hist>>

\* Line 70: restore_tty() is registered with atexit().
InitTtyAtexit ==
    /\ pc = "init_tty_atexit"
    /\ hook' = TRUE
    /\ pc' = "prompt"
    /\ UNCHANGED <<term, orig_tio, tty_fd, prompt, msg_press_tab, state, heap,
                   passwd, len, fd2, fd1, exit_status, diag, hist>>

\* Lines 132-133: the prompt and the hint.
PromptCalls ==
    <<Call(FormatS(prompt) \o <<SPACE>>, Cur),
      Call(FormatS(msg_press_tab), Cur)>>

PrintPrompt ==
    /\ pc = "prompt"
    /\ fd2' = fd2 \o Flatten(PromptCalls)
    /\ pc' = "alloc"
    /\ UNCHANGED <<term, orig_tio, tty_fd, hook, prompt, msg_press_tab, state,
                   heap, passwd, len, fd1, exit_status, diag, hist>>

PrintPromptFail ==
    /\ pc = "prompt"
    /\ \E k \in FailingCalls(PromptCalls) :
         fd2' = fd2 \o Written(PromptCalls, k)
    /\ xerror("dprintf()")
    /\ UNCHANGED <<orig_tio, hook, prompt, msg_press_tab, state, heap, passwd,
                   len, fd1, typed, eof, prev, last_out, emitted,
                   scrubs, frees>>

\* The blocks posix_memalign() can return: buf_size bytes, never written,
\* each of them zero or stale (the block may be recycled memory that mixes
\* both).
FreshBlocks == [1..PageSize -> Indeterminate]

\* Lines 134-153: sysconf(), posix_memalign(), mlock(), prctl(), len = 0.
AllocBuffer ==
    /\ pc = "alloc"
    /\ heap' = "live"
    /\ passwd' \in FreshBlocks
    /\ len' = 0
    /\ pc' = "loop"
    /\ UNCHANGED <<term, orig_tio, tty_fd, hook, prompt, msg_press_tab, state,
                   fd2, fd1, exit_status, diag, hist>>

\* sysconf() or posix_memalign() fails (lines 137, 143): no block yet.
AllocFail ==
    /\ pc = "alloc"
    /\ \E context \in {"sysconf(_SC_PAGESIZE)", "posix_memalign()"} :
         xerror(context)
    /\ UNCHANGED <<orig_tio, hook, prompt, msg_press_tab, state, heap, passwd,
                   len, fd2, fd1, typed, eof, prev, last_out, emitted,
                   scrubs, frees>>

\* mlock() or prctl() fails (lines 147, 151): the block is allocated.
LockFail ==
    /\ pc = "alloc"
    /\ heap' = "live"
    /\ passwd' \in FreshBlocks
    /\ \E context \in {"mlock()", "prctl(PR_SET_DUMPABLE, 0)"} :
         xerror(context)
    /\ UNCHANGED <<orig_tio, hook, prompt, msg_press_tab, state,
                   len, fd2, fd1, typed, eof, prev, last_out, emitted,
                   scrubs, frees>>

\* ------------------------------------------------------------- the loop
\* Line 155.
AssertHolds == len < PageSize

\* Line 156: read() stores the byte at passwd[len].
Stored(c) == [passwd EXCEPT ![len + 1] = c]

\* Lines 155-202 for a byte other than '\n'.  A failed assertion ends the
\* process with abort(), which runs no atexit() handler.
ReadByte ==
    /\ pc = "loop"
    /\ Len(typed) < MaxInput
    /\ IF ~AssertHolds
       THEN /\ pc' = "aborted"
            /\ UNCHANGED <<term, orig_tio, tty_fd, hook, prompt, msg_press_tab,
                           state, heap, passwd, len, fd2, fd1, exit_status,
                           diag, hist>>
       ELSE \E c \in Bytes \ {NL} :
              LET p == Pass(Cur, c)
              IN  /\ passwd' = Stored(c)
                  /\ typed' = Append(typed, c)
                  /\ len' = p.post.len
                  /\ state' = p.post.state
                  /\ msg_press_tab' = p.post.msg
                  /\ fd2' = fd2 \o Flatten(p.calls)
                  /\ prev' = [len |-> len, state |-> state,
                            secret |-> SubSeq(passwd, 1, len)]
                  /\ last_out' = Flatten(p.calls)
                  /\ UNCHANGED <<pc, term, orig_tio, tty_fd, hook, prompt, heap,
                                 fd1, exit_status, diag, eof, emitted,
                                 restores, scrubs, frees>>

\* Lines 155-202 with a feedback write that fails (line 79).
FeedbackFail ==
    /\ pc = "loop"
    /\ Len(typed) < MaxInput
    /\ AssertHolds
    /\ \E c \in Bytes \ {NL} :
         LET p == Pass(Cur, c)
         IN  \E k \in FailingCalls(p.calls) :
               /\ passwd' = Stored(c)
               /\ typed' = Append(typed, c)
               /\ len' = p.calls[k].pre.len
               /\ state' = p.calls[k].pre.state
               /\ msg_press_tab' = p.calls[k].pre.msg
               /\ fd2' = fd2 \o Written(p.calls, k)
               /\ prev' = [len |-> len, state |-> state,
                            secret |-> SubSeq(passwd, 1, len)]
               /\ last_out' = Written(p.calls, k)
    /\ xerror("dprintf()")
    /\ UNCHANGED <<orig_tio, hook, prompt, heap, fd1, eof, emitted,
                   scrubs, frees>>

\* Mutant of ReadNewline: the '\n' is kept as the last byte of the secret.
ReadNewline_keep ==
    /\ pc = "loop"
    /\ AssertHolds
    /\ HasRoom(len)
    /\ passwd' = Stored(NL)
    /\ len' = len + 1
    /\ typed' = Append(typed, NL)
    /\ pc' = "epilogue"
    /\ UNCHANGED <<term, orig_tio, tty_fd, hook, prompt, msg_press_tab, state,
                   heap, fd2, fd1, exit_status, diag, eof, prev,
                   last_out, emitted, restores, scrubs, frees>>

\* Lines 155-161: read() delivers '\n', which ends the loop.
ReadNewline ==
    /\ pc = "loop"
    /\ AssertHolds
    /\ passwd' = Stored(NL)
    /\ typed' = Append(typed, NL)
    /\ pc' = "epilogue"
    /\ UNCHANGED <<term, orig_tio, tty_fd, hook, prompt, msg_press_tab, state,
                   heap, len, fd2, fd1, exit_status, diag, eof, prev,
                   last_out, emitted, restores, scrubs, frees>>

\* Lines 155-161: read() returns 0, which ends the loop.
ReadEof ==
    /\ pc = "loop"
    /\ AssertHolds
    /\ eof' = TRUE
    /\ pc' = "epilogue"
    /\ UNCHANGED <<term, orig_tio, tty_fd, hook, prompt, msg_press_tab, state,
                   heap, passwd, len, fd2, fd1, exit_status, diag, typed,
                   prev, last_out, emitted, restores, scrubs, frees>>

\* Lines 155-159: read() fails.
ReadFail ==
    /\ pc = "loop"
    /\ AssertHolds
    /\ xerror("read()")
    /\ UNCHANGED <<orig_tio, hook, prompt, msg_press_tab, state, heap, passwd,
                   len, fd2, fd1, typed, eof, prev, last_out, emitted,
                   scrubs, frees>>

\* --------------------------------------------------------- after the loop
\* Mutant of Finish: main() leaves the restoring to the atexit() handler and
\* goes on to line 211.
Finish_no_restore ==
    /\ pc = "epilogue"
    /\ passwd' = Stored(NUL)
    /\ fd2' = fd2 \o Flatten(Epilogue(Cur))
    /\ pc' = "emit"
    /\ UNCHANGED <<term, orig_tio, tty_fd, hook, prompt, msg_press_tab, state,
                   heap, len, fd1, exit_status, diag, hist>>

\* Lines 204-209: terminate the secret, erase the feedback, end the line.
Finish ==
    /\ pc = "epilogue"
    /\ passwd' = Stored(NUL)
    /\ fd2' = fd2 \o Flatten(Epilogue(Cur))
    /\ pc' = "restore"
    /\ UNCHANGED <<term, orig_tio, tty_fd, hook, prompt, msg_press_tab, state,
                   heap, len, fd1, exit_status, diag, hist>>

FinishFail ==
    /\ pc = "epilogue"
    /\ passwd' = Stored(NUL)
    /\ \E k \in FailingCalls(Epilogue(Cur)) :
         fd2' = fd2 \o Written(Epilogue(Cur), k)
    /\ xerror("dprintf()")
    /\ UNCHANGED <<orig_tio, hook, prompt, msg_press_tab, state, heap,
                   len, fd1, typed, eof, prev, last_out, emitted,
                   scrubs, frees>>

\* Line 210: restore_tty() called by main(), tcsetattr() succeeding.
RestoreMain ==
    /\ pc = "restore"
    /\ LET r == restore_tty(TRUE)
       IN  /\ term' = r.term
           /\ tty_fd' = r.tty_fd
           /\ restores' = restores + (IF r.called THEN 1 ELSE 0)
    /\ pc' = "emit"
    /\ UNCHANGED <<orig_tio, hook, prompt, msg_press_tab, state, heap, passwd,
                   len, fd2, fd1, exit_status, diag, typed, eof, prev,
                   last_out, emitted, scrubs, frees>>

\* Line 210: restore_tty() called by main(), tcsetattr() failing (line 54).
RestoreMainFail ==
    /\ pc = "restore"
    /\ restore_tty(FALSE).failed
    /\ xerror("tcsetattr()")
    /\ UNCHANGED <<orig_tio, hook, prompt, msg_press_tab, state, heap, passwd,
                   len, fd2, fd1, typed, eof, prev, last_out, emitted,
                   scrubs, frees>>

\* Line 211: the secret goes to standard output.
EmitSecret ==
    /\ pc = "emit"
    /\ fd1' = fd1 \o FormatS(passwd)
    /\ emitted' = TRUE
    /\ pc' = "scrub"
    /\ UNCHANGED <<term, orig_tio, tty_fd, hook, prompt, msg_press_tab, state,
                   heap, passwd, len, fd2, exit_status, diag, typed, eof,
                   prev, last_out, restores, scrubs, frees>>

EmitFail ==
    /\ pc = "emit"
    /\ xerror("dprintf()")
    /\ UNCHANGED <<orig_tio, hook, prompt, msg_press_tab, state, heap, passwd,
                   len, fd2, fd1, typed, eof, prev, last_out, emitted,
                   scrubs, frees>>

\* Mutant of xmemset: the compiler removes the dead store.
xmemset_elided(mem, c, n) == mem

\* memset(mem, c, n) through the volatile pointer xmemset (lines 42-43).
xmemset(mem, c, n) == [i \in 1..Len(mem) |-> IF i <= n THEN c ELSE mem[i]]

\* Line 212.
Scrub ==
    /\ pc = "scrub"
    /\ passwd' = xmemset(passwd, NUL, PageSize)
    /\ scrubs' = scrubs + 1
    /\ pc' = "free"
    /\ UNCHANGED <<term, orig_tio, tty_fd, hook, prompt, msg_press_tab, state,
                   heap, len, fd2, fd1, exit_status, diag, typed, eof, prev,
                   last_out, emitted, restores, frees>>

\* Lines 213-214: free(), and main() returns 0, which is exit(0).
FreeAndReturn ==
    /\ pc = "free"
    /\ heap' = "freed"
    /\ frees' = frees + 1
    /\ exit(EXIT_SUCCESS, diag)
    /\ UNCHANGED <<orig_tio, hook, prompt, msg_press_tab, state, passwd,
                   len, fd2, fd1, typed, eof, prev, last_out, emitted, scrubs>>

\* ---------------------------------------------------------------- signals
Live == pc \notin {"exited", "crashed", "aborted", "killed"}

\* A terminating signal (SIGTERM, SIGINT, SIGHUP...) arrives.  The program
\* installs no handler, so the default action ends the process at once;
\* atexit() handlers run on exit() only.
Signal ==
    /\ Live
    /\ pc' = "killed"
    /\ UNCHANGED <<term, orig_tio, tty_fd, hook, prompt, msg_press_tab, state,
                   heap, passwd, len, fd2, fd1, exit_status, diag, hist>>

Next ==
    \/ InitTtyGet \/ InitTtyGetFail \/ InitTtySet \/ InitTtySetFail
    \/ InitTtyFd \/ InitTtyAtexit
    \/ PrintPrompt \/ PrintPromptFail
    \/ AllocBuffer \/ AllocFail \/ LockFail
    \/ ReadByte \/ FeedbackFail \/ ReadNewline \/ ReadEof \/ ReadFail
    \/ Finish \/ FinishFail
    \/ RestoreMain \/ RestoreMainFail
    \/ EmitSecret \/ EmitFail
    \/ Scrub \/ FreeAndReturn
    \/ Signal

Spec == Init /\ [][Next]_vars

\* The run without signals: every step is a step of main() or of the
\* handlers exit() runs.  The process is scheduled (a step of main() that
\* can be taken is taken or fails), and the terminal eventually delivers
\* '\n' or end-of-input while read() waits for it.
NextNoSignal ==
    \/ InitTtyGet \/ InitTtyGetFail \/ InitTtySet \/ InitTtySetFail
    \/ InitTtyFd \/ InitTtyAtexit
    \/ PrintPrompt \/ PrintPromptFail
    \/ AllocBuffer \/ AllocFail \/ LockFail
    \/ ReadByte \/ FeedbackFail \/ ReadNewline \/ ReadEof \/ ReadFail
    \/ Finish \/ FinishFail
    \/ RestoreMain \/ RestoreMainFail
    \/ EmitSecret \/ EmitFail
    \/ Scrub \/ FreeAndReturn

MainStep ==
    \/ InitTtyGet \/ InitTtySet \/ InitTtyFd \/ InitTtyAtexit
    \/ PrintPrompt \/ AllocBuffer \/ Finish \/ RestoreMain
    \/ EmitSecret \/ Scrub \/ FreeAndReturn

InputEnds == ReadNewline \/ ReadEof

SpecLive ==
    /\ Init
    /\ [][NextNoSignal]_vars
    /\ WF_vars(MainStep)
    /\ WF_vars(InputEnds)

\* ================================================================ claims
\* Helpers of the claims, defined apart from the program's operators.
Front(q) == SubSeq(q, 1, Len(q) - 1)
Last(q) == q[Len(q)]
Count(q, b) == Cardinality({i \in 1..Len(q) : q[i] = b})
RECURSIVE Erases(_)
Erases(n) == IF n = 0 THEN <<>> ELSE <<BS, SPACE, BS>> \o Erases(n - 1)
Printable(b) == b >= 32 /\ b <= 126
ControlByte(b) == b < 32 \/ b = 127
Interpreted == {BS, DEL, NAK, TAB, NL}
Ended == pc \in {"exited", "crashed", "aborted"}
Engaged == hook
RestoreFailed == hook /\ \E i \in 1..Len(diag) : diag[i] = "tcsetattr()"
AllZero(mem) == \A i \in 1..Len(mem) : mem[i] = NUL
\* The last loop pass has completed and processed the byte Last(typed).
AfterPass == pc = "loop" /\ typed # <<>>

\* C1: printable bytes only, fewer than the capacity, then '\n': standard
\* output received exactly the typed bytes and the feedback channel holds
\* exactly one '*' per typed byte.
C1_TypedIsSecret ==
    (/\ emitted
     /\ typed # <<>>
     /\ Last(typed) = NL
     /\ Len(Front(typed)) < PageSize
     /\ \A i \in 1..Len(typed) - 1 : Printable(typed[i]))
    => /\ fd1 = Front(typed)
       /\ Count(fd2, STAR) = Len(typed) - 1

C1_Witness ==
    /\ emitted
    /\ typed = <<97, 98, 97, NL>>
    /\ fd1 = <<97, 98, 97>>
    /\ Count(fd2, STAR) = 3

\* C2: once init_tty() has engaged the terminal, a process that ends by
\* returning from main() or through xerror() leaves the terminal with the
\* settings init_tty() saved, unless a tcsetattr() of restore_tty() failed.
C2_ExitRestores ==
    (Ended /\ Engaged /\ ~RestoreFailed)
    => (term = orig_tio /\ tty_fd = NoFd /\ restores = 1)

C2_Witness ==
    /\ pc = "exited"
    /\ Engaged
    /\ exit_status = EXIT_FAILURE
    /\ diag = <<"read()">>
    /\ "ECHO" \in orig_tio
    /\ term = orig_tio

\* C3: a process ended by a terminating signal after init_tty() has engaged
\* the terminal leaves the terminal with the saved settings.
C3_SignalRestores ==
    (pc = "killed" /\ Engaged) => term = orig_tio

\* C4: nothing is written to standard output while the terminal is still
\* engaged, and when restoring fails the process ends with a failure and
\* standard output has received nothing.
C4_EmitAfterRestore ==
    /\ (emitted \/ fd1 # <<>> \/ pc \in {"emit", "scrub", "free"})
         => (tty_fd = NoFd /\ term = orig_tio /\ ~RestoreFailed)
    /\ RestoreFailed
         => (/\ Ended
             /\ exit_status = EXIT_FAILURE
             /\ ~emitted
             /\ fd1 = <<>>)

C4_Witness ==
    /\ RestoreFailed
    /\ pc = "exited"
    /\ len = 2
    /\ typed = <<97, 98, NL>>
    /\ fd1 = <<>>

\* C5: the secret buffer is zeroed over its whole capacity and then freed,
\* each at most once and only after line 211 has emitted the secret; a run
\* that returns from main() has done both exactly once.
C5_DestroyedOnceAfterEmit ==
    /\ scrubs <= 1
    /\ frees <= 1
    /\ (scrubs > 0 \/ frees > 0 \/ heap = "freed") => emitted
    /\ scrubs > 0 => AllZero(passwd)
    /\ frees > 0 => scrubs > 0
    /\ (pc = "exited" /\ exit_status = EXIT_SUCCESS)
         => (scrubs = 1 /\ frees = 1 /\ heap = "freed" /\ Len(passwd) = PageSize)

C5_Witness ==
    /\ pc = "exited"
    /\ exit_status = EXIT_SUCCESS
    /\ fd1 = <<97, 98>>
    /\ scrubs = 1
    /\ frees = 1
    /\ AllZero(passwd)

\* C6: a process that ends through xerror() on a read, feedback-write,
\* restore or result-write failure while the buffer holds a secret of
\* printable bytes has zeroed the whole buffer.
C6_ScrubOnError ==
    (/\ Ended
     /\ exit_status = EXIT_FAILURE
     /\ heap # "none"
     /\ diag[1] \in {"read()", "dprintf()", "tcsetattr()"}
     /\ len > 0
     /\ \A i \in 1..len : Printable(passwd[i]))
    => AllZero(passwd)

\* C7: 0 <= len <= capacity - 1 always, the assertion of line 155 never
\* fails, and a literal byte that arrives at len = capacity - 1 leaves len
\* unchanged and writes a bell.
C7_LenBounded ==
    /\ len >= 0
    /\ len <= PageSize - 1
    /\ pc # "aborted"
    /\ (AfterPass /\ Last(typed) \notin Interpreted /\ prev.len = PageSize - 1)
         => (len = prev.len /\ last_out = <<BEL>>)

C7_Witness ==
    /\ AfterPass
    /\ Last(typed) = 98
    /\ prev.len = PageSize - 1
    /\ len = PageSize - 1
    /\ last_out = <<BEL>>

\* C8 as stated: none of the first len bytes of the buffer is a control
\* byte (below 0x20, or 0x7F).
C8_NoControlByte ==
    heap = "live" => \A i \in 1..len : ~ControlByte(passwd[i])

\* C8 amended: none of the first len bytes of the buffer is one of the bytes
\* the loop interprets (0x08, 0x7F, 0x15, 0x09, 0x0A); any other byte, a
\* control byte included, is accepted as a literal.
C8_NoInterpretedByte ==
    /\ heap = "live" => \A i \in 1..len : passwd[i] \notin Interpreted
    /\ (AfterPass /\ Last(typed) \notin Interpreted /\ prev.len < PageSize - 1)
         => (len = prev.len + 1 /\ passwd[len] = Last(typed))

C8_Witness ==
    /\ pc = "loop"
    /\ typed = <<97, TAB, NUL>>
    /\ len = 2
    /\ passwd[1] = 97
    /\ passwd[2] = NUL

\* C9 as stated: in every mode, the first byte included, a backspace or
\* delete arriving at len = 0 leaves len at 0 and writes a bell.
C9_EraseOnEmptyBells ==
    (AfterPass /\ IsErase(Last(typed)) /\ prev.len = 0)
    => (len = 0 /\ Count(last_out, BEL) = 1)

\* C9 amended: a backspace or delete arriving at len = 0 leaves len at 0;
\* in Echoing or Silent mode it writes a bell and nothing else; as the very
\* first byte (mode Undecided) it writes no bell: the hint is erased, the
\* no-echo hint is written and the mode becomes Silent.
C9_EraseOnEmpty ==
    (AfterPass /\ IsErase(Last(typed)) /\ prev.len = 0)
    => /\ len = 0
       /\ prev.state # STATE_INIT => (last_out = <<BEL>> /\ state = prev.state)
       /\ prev.state = STATE_INIT
            => /\ last_out = Erases(Len(MsgPressTab)) \o msg_no_echo
               /\ Count(last_out, BEL) = 0
               /\ state = STATE_NO_ECHO

C9_Witness ==
    /\ AfterPass
    /\ typed = <<97, BS, DEL>>
    /\ prev.len = 0
    /\ prev.state = STATE_ECHO
    /\ len = 0
    /\ last_out = <<BEL>>

\* C10: kill-line sets len to 0 whatever len and the mode were; in Echoing
\* mode it writes exactly as many erase sequences as the prior len (when it
\* is the first byte, the mode becomes Echoing and only the hint is erased).
C10_KillLine ==
    (AfterPass /\ Last(typed) = NAK)
    => /\ len = 0
       /\ prev.state = STATE_ECHO => last_out = Erases(prev.len)
       /\ prev.state = STATE_INIT => last_out = Erases(Len(MsgPressTab))

C10_Witness ==
    /\ AfterPass
    /\ typed = <<97, 98, NAK>>
    /\ prev.state = STATE_ECHO
    /\ prev.len = 2
    /\ len = 0
    /\ last_out = Erases(2)

\* The current secret: the first len bytes of the buffer.
Secret == SubSeq(passwd, 1, len)
\* The position of the first tab among the bytes delivered, 0 if none.
FirstTab ==
    IF \E i \in 1..Len(typed) : typed[i] = TAB
    THEN CHOOSE i \in 1..Len(typed) :
           typed[i] = TAB /\ \A j \in 1..(i - 1) : typed[j] # TAB
    ELSE 0
InMain == pc \in {"loop", "epilogue", "restore", "emit", "scrub"}

\* C11: a tab at any position leaves the mode Silent for good: the masks on
\* the feedback channel were all written for bytes delivered before the
\* first tab, and the pass that processes a tab changes neither len nor the
\* bytes accepted so far.
C11_TabSilences ==
    /\ FirstTab > 0 => Count(fd2, STAR) <= FirstTab - 1
    /\ (FirstTab > 0 /\ InMain) => state = STATE_NO_ECHO
    /\ (AfterPass /\ prev.state = STATE_NO_ECHO)
         => (state = STATE_NO_ECHO /\ Count(last_out, STAR) = 0)
    /\ (AfterPass /\ Last(typed) = TAB)
         => (len = prev.len /\ Secret = prev.secret)

C11_Witness ==
    /\ AfterPass
    /\ typed = <<97, TAB, 98, 97>>
    /\ state = STATE_NO_ECHO
    /\ Secret = <<97, 98, 97>>
    /\ Count(fd2, STAR) = 1

\* C12: when the first byte delivered is backspace or delete, the pass
\* erases the press-TAB hint, writes the no-echo hint and nothing else (no
\* bell, no erase of a mask), the mode is Silent from then on, len stays 0,
\* and neither the buffer's secret nor standard output ever holds that byte.
C12_FirstByteErase ==
    (typed # <<>> /\ IsErase(typed[1]))
    => /\ (pc = "loop" /\ Len(typed) = 1)
            => /\ state = STATE_NO_ECHO
               /\ len = 0
               /\ last_out = Erases(Len(MsgPressTab)) \o msg_no_echo
               /\ fd2 = prompt \o <<SPACE>> \o MsgPressTab \o last_out
       /\ InMain => state = STATE_NO_ECHO
       /\ (InMain /\ (Len(typed) = 1 \/ typed = <<typed[1], NL>>)) => len = 0
       /\ heap = "live" => \A i \in 1..len : ~IsErase(passwd[i])
       /\ \A i \in 1..Len(fd1) : ~IsErase(fd1[i])

C12_Witness ==
    /\ emitted
    /\ typed = <<DEL, 97, 98, NL>>
    /\ state = STATE_NO_ECHO
    /\ fd1 = <<97, 98>>
    /\ Count(fd2, STAR) = 0
    /\ Count(fd2, BEL) = 0

\* C13: end-of-input and '\n' end the loop alike.  Either way of leaving
\* the loop changes no variable of the program but pc and, for '\n', the
\* byte at passwd[len]; and that byte is NUL when line 210 is reached, so
\* from there on (feedback, restoring, emitting, exit status) the two runs
\* are in the same program state.
C13_EofLikeNewline ==
    /\ [][(pc = "loop" /\ pc' = "epilogue")
            => /\ eof' \/ Last(typed') = NL
               /\ <<term, orig_tio, tty_fd, hook, prompt, msg_press_tab,
                    state, heap, len, fd2, fd1, exit_status, diag>>'
                  = <<term, orig_tio, tty_fd, hook, prompt, msg_press_tab,
                      state, heap, len, fd2, fd1, exit_status, diag>>
               /\ \A i \in 1..PageSize :
                    i # len + 1 => passwd'[i] = passwd[i]]_vars
    /\ [](pc = "restore" => (passwd[len + 1] = NUL /\ strlen(passwd) <= len))

C13_Witness ==
    /\ eof
    /\ emitted
    /\ typed = <<97, 98>>
    /\ fd1 = <<97, 98>>
    /\ pc = "exited"
    /\ exit_status = EXIT_SUCCESS
    /\ term = orig_tio

\* C14: restoring is idempotent.  tcsetattr() applies the saved settings at
\* most once in a run and exactly once in a run that returns from main()
\* (where the atexit() handler runs after the call of line 210); and a
\* restore_tty() call made while tty_fd is negative (after a successful
\* restore, or with the terminal never engaged) calls no tcsetattr() and
\* changes neither the terminal nor tty_fd.
C14_RestoreIdempotent ==
    /\ restores <= 1
    /\ (pc = "exited" /\ exit_status = EXIT_SUCCESS)
         => (restores = 1 /\ term = orig_tio /\ tty_fd = NoFd)
    /\ tty_fd = NoFd
         => \A ok \in BOOLEAN :
              restore_tty(ok) = [term |-> term, tty_fd |-> NoFd,
                                 called |-> FALSE, failed |-> FALSE]

C14_Witness ==
    /\ pc = "exited"
    /\ exit_status = EXIT_SUCCESS
    /\ hook
    /\ restores = 1
    /\ tty_fd = NoFd
    /\ "ECHO" \in term
    /\ diag = <<>>

\* The bytes delivered before the line terminator.
Keys == IF typed # <<>> /\ Last(typed) = NL THEN Front(typed) ELSE typed

\* The reference line-edit interpretation of a sequence of bytes: a
\* backspace or delete removes the last byte (nothing when the secret is
\* empty or the byte is the first one delivered), kill-line empties the
\* secret, a tab changes nothing, any other byte is appended when fewer than
\* PageSize - 1 bytes are held.
RECURSIVE RefSecret(_)
RefSecret(keys) ==
    IF keys = <<>> THEN <<>>
    ELSE LET r == RefSecret(Front(keys))
             c == Last(keys)
         IN  IF c = BS \/ c = DEL
             THEN IF Len(keys) = 1 \/ r = <<>> THEN r ELSE Front(r)
             ELSE IF c = NAK THEN <<>>
             ELSE IF c = TAB THEN r
             ELSE IF Len(r) < PageSize - 1 THEN Append(r, c)
             ELSE r

\* C15: throughout the loop and when it has ended, on '\n' or end-of-input,
\* the secret (the first len bytes of the buffer) is the reference
\* interpretation of the bytes delivered; after line 204 it is followed by
\* the terminator; and what line 211 writes is that secret whenever no NUL
\* byte was accepted into it.
C15_SecretIsReference ==
    /\ InMain => Secret = RefSecret(Keys)
    /\ pc \in {"restore", "emit", "scrub"} => passwd[len + 1] = NUL
    /\ (emitted /\ Count(RefSecret(Keys), NUL) = 0) => fd1 = RefSecret(Keys)

C15_Witness ==
    /\ emitted
    /\ typed = <<97, 98, BS, 97, NL>>
    /\ fd1 = <<97, 97>>
    /\ RefSecret(Keys) = <<97, 97>>

\* C16: the mode only moves forward.  It is Undecided at the start and
\* until the first byte other than '\n' has been processed, and never
\* afterwards; no step enters Undecided; a step that leaves Echoing enters
\* Silent and processes a tab; no step leaves Silent.
C16_ModeForward ==
    /\ [](typed = <<>> => state = STATE_INIT)
    /\ [](AfterPass => state # STATE_INIT)
    /\ [][/\ state' = STATE_INIT => state = STATE_INIT
          /\ (state = STATE_ECHO /\ state' # STATE_ECHO)
               => (state' = STATE_NO_ECHO /\ Last(typed') = TAB)
          /\ state = STATE_NO_ECHO => state' = STATE_NO_ECHO]_vars

C16_Witness ==
    /\ AfterPass
    /\ typed = <<97, 98, TAB, 97>>
    /\ prev.state = STATE_NO_ECHO
    /\ state = STATE_NO_ECHO
    /\ len = 3

\* C17: in Silent mode a backspace or delete on a non-empty buffer and a
\* kill-line on a buffer of any length write no erase sequence to the
\* feedback channel.
C17_SilentEditsEraseNothing ==
    (/\ AfterPass
     /\ prev.state = STATE_NO_ECHO
     /\ \/ IsErase(Last(typed)) /\ prev.len > 0
        \/ Last(typed) = NAK)
    => Count(last_out, BS) = 0

\* C18: when line 211 has written, standard output holds exactly the
\* current secret, the first len bytes of the buffer (read before line 212
\* zeroes the buffer).
C18_OutputIsSecret ==
    pc = "scrub" => fd1 = Secret

\* C19: the loop is left only by end-of-input, by '\n' or through xerror();
\* and a run in which the terminal eventually delivers '\n' or end-of-input
\* ends, either through xerror() when an operation fails or, when none
\* fails, by returning from main() having restored the terminal, then
\* written the secret, then zeroed and freed the buffer.
C19_LoopEndsAndTerminates ==
    /\ [][(pc = "loop" /\ pc' # "loop")
            => \/ pc' = "epilogue" /\ (eof' \/ Last(typed') = NL)
               \/ /\ pc' \in {"exited", "crashed"}
                  /\ exit_status' = EXIT_FAILURE
                  /\ diag' # diag]_vars
    /\ <>(pc \in {"exited", "crashed"})
    /\ []((pc \in {"exited", "crashed"} /\ diag = <<>>)
            => /\ pc = "exited"
               /\ exit_status = EXIT_SUCCESS
               /\ restores = 1 /\ term = orig_tio
               /\ emitted
               /\ scrubs = 1 /\ frees = 1 /\ AllZero(passwd))
    /\ [](emitted => (restores = 1 /\ tty_fd = NoFd))
    /\ [](scrubs > 0 => emitted)
    /\ [](frees > 0 => scrubs > 0)

C19_Witness ==
    /\ pc = "exited"
    /\ exit_status = EXIT_SUCCESS
    /\ diag = <<>>
    /\ typed = <<TAB, 97, NL>>
    /\ restores = 1
    /\ emitted
    /\ scrubs = 1

\* The line a terminal shows after receiving the first n bytes of out: a
\* backspace moves the cursor one cell left, a bell and a newline change no
\* cell, any other byte is put in the cell under the cursor and moves the
\* cursor one cell right.
Put(t, b) ==
    IF b = BS THEN [t EXCEPT !.cur = IF t.cur > 0 THEN t.cur - 1 ELSE 0]
    ELSE IF b = BEL \/ b = NL THEN t
    ELSE [cells |-> IF t.cur < Len(t.cells)
                    THEN [t.cells EXCEPT ![t.cur + 1] = b]
                    ELSE Append(t.cells, b),
          cur |-> t.cur + 1]
\* Put applied to the bytes out[i..j] in order, and to a whole sequence in
\* stretches of sixteen bytes (which keeps the evaluation shallow).
RECURSIVE Feed(_, _, _, _)
Feed(t, out, i, j) ==
    IF i > j THEN t
    ELSE LET u == Put(t, out[i])
         IN  IF u.cur < 0 THEN u ELSE Feed(u, out, i + 1, j)
RECURSIVE FeedAll(_, _, _)
FeedAll(t, out, i) ==
    IF i > Len(out) THEN t
    ELSE LET u == Feed(t, out, i, Min(i + 15, Len(out)))
         IN  IF u.cur < 0 THEN u ELSE FeedAll(u, out, i + 16)
Screen(out, n) == FeedAll([cells |-> <<>>, cur |-> 0], SubSeq(out, 1, n), 1)
\* The number of masks the feedback channel currently shows.
Shown == Count(Screen(fd2, Len(fd2)).cells, STAR)

\* C20: between loop passes the number of masks shown is len in Echoing
\* mode and 0 in Undecided and Silent mode; and when line 210 is reached
\* the feedback ends with the newline, preceded in Echoing mode by len
\* erase sequences, and no mask is shown.
C20_MasksShown ==
    /\ pc = "loop" => Shown = (IF state = STATE_ECHO THEN len ELSE 0)
    /\ pc = "restore"
         => /\ Shown = 0
            /\ Last(fd2) = NL
            /\ state = STATE_ECHO
                 => SubSeq(fd2, Len(fd2) - 3 * len, Len(fd2))
                      = Erases(len) \o <<NL>>

C20_Witness ==
    /\ pc = "restore"
    /\ state = STATE_ECHO
    /\ typed = <<97, 98, 97, NL>>
    /\ len = 3
    /\ Count(fd2, STAR) = 3
    /\ Shown = 0

====
